---- MODULE Spec2Model ----
(***************************************************************************)
(* One chat turn of ChatService.stream_chat_response                       *)
(* (src/agent/app/services/chat_service.py) over the store operations of   *)
(* ConversationService (src/agent/app/services/conversation_service.py).   *)
(*                                                                         *)
(* Two asyncio tasks share one event loop: the generator (start of the     *)
(* turn, Delivery Loop, final done write) and the background task          *)
(* process_agent_stream (the Producer).  The store calls are synchronous   *)
(* and asyncio.Queue() is unbounded, so put never suspends: the handling   *)
(* of one engine event is one atomic step, and so is one pass of the       *)
(* Delivery Loop (queue get, frame write, terminal test).                  *)
(*                                                                         *)
(* Text is kept exactly, in run-length form: a string is a sequence of     *)
(* runs [c, n] (n > 0 copies of the character c, adjacent runs differing   *)
(* in c), so that len(), + and [:k] are computed as Python computes them.  *)
(***************************************************************************)
EXTENDS Integers, Sequences, FiniteSets, TLC

\* ------------------------------------------------------------- bounds
\* Engine events one turn consumes before the model stops the engine.
MaxEvents == 4
\* Tool invocations started in one turn.
MaxToolCalls == 2
\* Store calls that raise in one turn.
MaxStoreFailures == 1

\* ---------------------------------------------------- program constants
SAVE_INTERVAL == 100
\* get_conversation_history(conversation_id=conversation_id, limit=3).
HistoryLimit == 3
ResultLimit == 500

\* --------------------------------------------------------------- text
Run(ch, k) == <<[c |-> ch, n |-> k]>>

RECURSIVE StrLen(_)
StrLen(s) == IF s = <<>> THEN 0 ELSE s[1].n + StrLen(Tail(s))

\* Python str + str.
Concat(s, t) ==
    IF s = <<>> THEN t
    ELSE IF t = <<>> THEN s
    ELSE IF s[Len(s)].c = t[1].c
         THEN SubSeq(s, 1, Len(s) - 1)
              \o Run(t[1].c, s[Len(s)].n + t[1].n)
              \o Tail(t)
         ELSE s \o t

\* Python s[:k].
RECURSIVE Prefix(_, _)
Prefix(s, k) ==
    IF s = <<>> \/ k <= 0 THEN <<>>
    ELSE IF s[1].n >= k THEN Run(s[1].c, k)
    ELSE <<s[1]>> \o Prefix(Tail(s), k - s[1].n)

\* Python None where a string may stand: a value that is no string.
None == <<[c |-> "None", n |-> 0]>>
\* No message identifier (assistant_message_id = None; message_id not passed).
NoId == 0
\* No conversation identifier in the request.
NoConv == [by |-> "nobody", n |-> 0]

\* ------------------------------------------------- the model's inputs
\* Non-empty chunk.content values of on_chat_model_stream events.
Deltas == {Run("a", 40), Run("b", 60)}
\* output["output"] values of the AgentExecutor on_chain_end event.
Finals == {Run("f", 7), Run("a", 40) \o Run("b", 60)}
\* The tools bound to the agent: retrieve_macbook_facts and web_search.
ToolNames == {"rag", "web"}
\* Tool inputs {"query": q}; both tools take the single argument query.
\* The engine asks retrieve_macbook_facts either query, web_search the first.
ToolInputs(name) == IF name = "rag" THEN {"q1", "q2"} ELSE {"q1"}
\* What each tool returns: web_search a short text, retrieve_macbook_facts
\* one that exceeds the 500-character cut.
ToolOutput(name) == IF name = "rag" THEN Run("y", 600) ELSE Run("x", 3)
\* Conversations the store holds before the turn, and one it does not.
KnownConv == [by |-> "client", n |-> 0]
UnknownConv == [by |-> "client", n |-> 9]
\* The identifier uuid4() mints for a new conversation: nid is the next
\* value of the generator, which no client-supplied identifier equals.
FreshConv(nid) == [by |-> "uuid4", n |-> nid]
UserText == Run("q", 5)
\* conversation_id strings of a request that are no identifier: the empty
\* string, and a non-empty string UUID() does not parse.
EmptyConv == [by |-> "empty", n |-> 0]
MalformedConv == [by |-> "garbage", n |-> 0]

VARIABLES
    \* the store (Supabase tables)
    conversations,        \* sequence of rows [id]
    messages,             \* sequence of [id, conversation_id, role, content]
    tool_calls,           \* sequence of [id, message_id, tool_name, input, result]
    nextId,               \* the next identifier uuid4() returns
    \* the request and the generator (stream_chat_response)
    request,              \* [message, conversation_id]
    conversation_id,      \* the resolved conversation id
    genPc,                \* "init" | "rejected" | "loop" | "final" | "closed"
    frames,               \* frames the client received, in order
    connected,            \* the client transport still accepts writes
    event_queue,          \* asyncio.Queue(): events not yet taken
    \* the Producer (process_agent_stream)
    prodPc,               \* "idle" | "run" | "done"
    full_response,
    assistant_message_id,
    last_save_length,
    saved_tool_call_ids,
    tool_calls_data,      \* sequence of [tool_name, input, result]
    \* bookkeeping of the run
    nEvents,              \* engine events consumed
    failed,               \* store calls that raised, in order
    finalText,            \* the final text handled by on_chain_end, or None
    outcome,              \* how the task ended: "final", "error", "exhausted"
    lastCall,             \* the last save_message call and its outcome
    incrFail,             \* an incremental write of the assistant Message raised
    putLog,               \* every event the Producer has put, in order
    convLog,              \* the create_conversation calls made, in order
    history,              \* the last get_conversation_history call and its result
    turns                 \* two turns of one ChatService: their own state

vars == <<conversations, messages, tool_calls, nextId, request, conversation_id,
          genPc, frames, connected, event_queue, prodPc, full_response,
          assistant_message_id, last_save_length, saved_tool_call_ids,
          tool_calls_data, nEvents, failed, finalText, outcome, lastCall,
          incrFail, putLog, convLog, history, turns>>

storeVars == <<conversations, messages, tool_calls, nextId>>
genVars == <<request, conversation_id, genPc, frames, connected>>
prodVars == <<prodPc, full_response, assistant_message_id, last_save_length,
              saved_tool_call_ids, tool_calls_data>>

NoCall == [kind |-> "none", message_id |-> NoId, content |-> None,
           raised |-> FALSE, returned |-> NoId, rowsBefore |-> 0, rowsAfter |-> 0]

\* ---------------------------------------------------------- the store
\* A store call may raise while the turn's budget of failures lasts.
FailChoices == IF Len(failed) < MaxStoreFailures THEN {FALSE, TRUE} ELSE {FALSE}

\* The identifiers of the rows of the conversations table.
ConvIds(convs) == {convs[i].id : i \in 1 .. Len(convs)}

\* Mutant: the row is inserted without looking the identifier up first.
create_conversation_AlwaysInsert(convs, nid, cid) ==
    IF cid = NoConv
    THEN [conversations |-> Append(convs, [id |-> FreshConv(nid)]),
          id |-> FreshConv(nid), nextId |-> nid + 1]
    ELSE [conversations |-> Append(convs, [id |-> cid]), id |-> cid,
          nextId |-> nid]

\* ConversationService.create_conversation: the conversations table after
\* the call, the id returned and the next value of uuid4().  A given id is
\* looked up first and returned as it is when a row has it; otherwise one
\* row is inserted, under the given id or under str(uuid4()).
create_conversation(convs, nid, cid) ==
    IF cid = NoConv
    THEN [conversations |-> Append(convs, [id |-> FreshConv(nid)]),
          id |-> FreshConv(nid), nextId |-> nid + 1]
    ELSE IF cid \in ConvIds(convs)
         THEN [conversations |-> convs, id |-> cid, nextId |-> nid]
         ELSE [conversations |-> Append(convs, [id |-> cid]), id |-> cid,
               nextId |-> nid]

\* What the bookkeeping keeps of a create_conversation call: the id given,
\* the ids the table held, the id returned and the table sizes.
ConvRecord(cid, before, cc) ==
    [given |-> cid, idsBefore |-> ConvIds(before), returned |-> cc.id,
     rowsBefore |-> Len(before), rowsAfter |-> Len(cc.conversations)]

\* ConversationService.save_message(conversation_id, role, content): the
\* signature has no message_id parameter; every call inserts a row under
\* a fresh uuid4() and returns that id.
save_message_insert(msgs, nid, conv, role, content) ==
    Append(msgs, [id |-> nid, conversation_id |-> conv, role |-> role,
                  content |-> content])

\* A call save_message(..., message_id=mid) as chat_service.py makes it.
\* With the keyword message_id Python raises TypeError before the body
\* runs (the parameter does not exist); without it the row is inserted,
\* unless the store raises (fail).
save_message(msgs, nid, conv, role, content, mid, fail) ==
    IF mid # NoId
    THEN [raised |-> TRUE, typeError |-> TRUE, messages |-> msgs, id |-> NoId]
    ELSE IF fail
    THEN [raised |-> TRUE, typeError |-> FALSE, messages |-> msgs, id |-> NoId]
    ELSE [raised |-> FALSE, typeError |-> FALSE,
          messages |-> save_message_insert(msgs, nid, conv, role, content),
          id |-> nid]

\* ConversationService.save_tool_call: one inserted row.
save_tool_call(rows, nid, mid, tc) ==
    Append(rows, [id |-> nid, message_id |-> mid, tool_name |-> tc.tool_name,
                  input |-> tc.input, result |-> tc.result])

\* The rows of the conversation, oldest first (created_at ascending: the
\* order of insertion).
ConversationMessages(msgs, conv) ==
    SelectSeq(msgs, LAMBDA m : m.conversation_id = conv)

\* One row of the history: the message with the tool calls attached to it.
HistoryRow(m, tcs) ==
    [message_id |-> m.id, role |-> m.role, content |-> m.content,
     tool_calls |-> SelectSeq(tcs, LAMBDA tc : tc.message_id = m.id)]

\* The database function get_conversation_history(p_conversation_id,
\* p_limit): the p_limit most recent messages of the conversation, the
\* newest first, each with its tool calls.
rpc_get_conversation_history(msgs, tcs, conv, limit) ==
    LET all == ConversationMessages(msgs, conv)
        n == Len(all)
        k == IF limit < n THEN limit ELSE n
    IN [i \in 1 .. k |-> HistoryRow(all[n - i + 1], tcs)]

\* Python reversed(response.data).
Reversed(rows) == [i \in 1 .. Len(rows) |-> rows[Len(rows) + 1 - i]]

\* Mutant: the rows are returned in the order the database gave them.
get_conversation_history_AsReturned(msgs, tcs, conv, limit) ==
    rpc_get_conversation_history(msgs, tcs, conv, limit)

\* ConversationService.get_conversation_history: the rows of the database
\* function, reversed to oldest first; [] when there are none.
get_conversation_history(msgs, tcs, conv, limit) ==
    LET data == rpc_get_conversation_history(msgs, tcs, conv, limit)
    IN IF data = <<>> THEN <<>> ELSE Reversed(data)

\* What the bookkeeping keeps of a get_conversation_history call: the
\* arguments, the sizes of the tables when it was made, and the result.
HistoryRecord(conv, limit, msgs, tcs, rows) ==
    [conversation_id |-> conv, limit |-> limit, msgCount |-> Len(msgs),
     tcCount |-> Len(tcs), rows |-> rows]

NoHistory == HistoryRecord(NoConv, 0, <<>>, <<>>, <<>>)

\* What the bookkeeping keeps of a save_message call.
CallRecord(kind, mid, content, r, before) ==
    [kind |-> kind, message_id |-> mid, content |-> content,
     raised |-> r.raised, returned |-> r.id,
     rowsBefore |-> Len(before), rowsAfter |-> Len(r.messages)]

\* ------------------------------------------------ two turns at a time
\* Two calls of stream_chat_response on the one ChatService, each for a
\* conversation of its own.
TurnIds == {1, 2}
TurnConv(t) == IF t = 1 THEN KnownConv ELSE UnknownConv

\* What a call of stream_chat_response holds in its own frame: the
\* generator's locals, the queue it created, the locals of its
\* process_agent_stream closure, and the bookkeeping of its run.
NewTurn ==
    [conversation_id |-> NoConv, genPc |-> "init", frames |-> <<>>,
     event_queue |-> <<>>, prodPc |-> "idle", full_response |-> <<>>,
     assistant_message_id |-> NoId, last_save_length |-> 0,
     saved_tool_call_ids |-> {}, tool_calls_data |-> <<>>,
     nEvents |-> 0, failed |-> <<>>, finalText |-> None,
     outcome |-> "none", lastCall |-> NoCall, incrFail |-> FALSE,
     putLog |-> <<>>]

Init ==
    /\ conversations = <<[id |-> KnownConv]>>
    /\ messages = <<>>
    /\ tool_calls = <<>>
    /\ nextId = 1
    /\ request \in [message : {UserText},
                    conversation_id : {NoConv, EmptyConv, MalformedConv,
                                       KnownConv, UnknownConv}]
    /\ conversation_id = NoConv
    /\ genPc = "init"
    /\ frames = <<>>
    /\ connected = TRUE
    /\ event_queue = <<>>
    /\ prodPc = "idle"
    /\ full_response = <<>>
    /\ assistant_message_id = NoId
    /\ last_save_length = 0
    /\ saved_tool_call_ids = {}
    /\ tool_calls_data = <<>>
    /\ nEvents = 0
    /\ failed = <<>>
    /\ finalText = None
    /\ outcome = "none"
    /\ lastCall = NoCall
    /\ incrFail = FALSE
    /\ putLog = <<>>
    /\ convLog = <<>>
    /\ history = NoHistory
    /\ turns = [t \in TurnIds |-> NewTurn]

\* ------------------------------------------------ the generator: start
\* A frame write: the client receives the frame while the transport is up.
WriteFrame(fs, frame) == IF connected THEN Append(fs, frame) ELSE fs

\* Mutant: the frame echoes the identifier of the request instead of the
\* resolved one.
ConversationIdFrame_Echo(cid) ==
    [type |-> "conversation_id", conversation_id |-> request.conversation_id]

\* {'type': 'conversation_id', 'conversation_id': str(conversation_id)}.
ConversationIdFrame(cid) == [type |-> "conversation_id", conversation_id |-> cid]

\* Mutant: the route hands the string on without parsing it.
ParseConversationId_Unchecked(raw) ==
    IF raw = NoConv \/ raw = EmptyConv
    THEN [ok |-> TRUE, id |-> NoConv]
    ELSE [ok |-> TRUE, id |-> raw]

\* chat_stream, lines 40-45: "if request.conversation_id:" takes None and
\* the empty string as no identifier; any other string goes through
\* UUID(), whose ValueError becomes HTTP 400.
ParseConversationId(raw) ==
    IF raw = NoConv \/ raw = EmptyConv
    THEN [ok |-> TRUE, id |-> NoConv]
    ELSE IF raw.by \in {"client", "uuid4"}
         THEN [ok |-> TRUE, id |-> raw]
         ELSE [ok |-> FALSE, id |-> NoConv]

\* The route raises HTTPException(400): no StreamingResponse is built and
\* stream_chat_response is never called.
RejectRequest ==
    /\ genPc = "init"
    /\ ~ParseConversationId(request.conversation_id).ok
    /\ genPc' = "rejected"
    /\ UNCHANGED <<storeVars, request, conversation_id, frames, connected,
                   event_queue, prodVars, nEvents, failed, finalText, outcome,
                   lastCall, incrFail, putLog, convLog, history, turns>>

\* Where the synchronous prologue of stream_chat_response may raise:
\* 0 nowhere, 1 create_conversation, 2 save_message (user), 3 history read.
StartFailPoints == IF Len(failed) < MaxStoreFailures THEN 0 .. 3 ELSE {0}

\* Mutant: the turn starts without the user message being stored.
StartTurn_UserMessageUnsaved ==
    /\ genPc = "init"
    /\ ParseConversationId(request.conversation_id).ok
    /\ \E fp \in StartFailPoints :
         LET given == ParseConversationId(request.conversation_id).id
             cc == create_conversation(conversations, nextId, given)
             sm == save_message(messages, cc.nextId, cc.id, "user",
                                request.message, NoId, fp = 2)
         IN
         /\ conversations' = IF fp = 1 THEN conversations ELSE cc.conversations
         /\ conversation_id' = IF fp = 1 THEN conversation_id ELSE cc.id
         /\ messages' = messages
         /\ nextId' = CASE fp = 1 -> nextId
                        [] fp = 2 -> cc.nextId
                        [] OTHER -> cc.nextId + 1
         /\ convLog' = IF fp = 1 THEN convLog
                        ELSE Append(convLog,
                                    ConvRecord(given, conversations, cc))
         /\ lastCall' = IF fp = 1 THEN lastCall
                        ELSE CallRecord("user", NoId, request.message, sm, messages)
         /\ history' = IF fp # 0 THEN history
                        ELSE HistoryRecord(cc.id, HistoryLimit, sm.messages,
                                 tool_calls,
                                 get_conversation_history(sm.messages,
                                     tool_calls, cc.id, HistoryLimit))
         /\ failed' = CASE fp = 0 -> failed
                        [] fp = 1 -> Append(failed, "create_conversation")
                        [] fp = 2 -> Append(failed, "save_message")
                        [] fp = 3 -> Append(failed, "get_conversation_history")
         /\ IF fp = 0
            THEN /\ prodPc' = "run"
                 /\ frames' = WriteFrame(frames, ConversationIdFrame(cc.id))
                 /\ genPc' = "loop"
            ELSE /\ prodPc' = prodPc
                 /\ frames' = frames
                 /\ genPc' = "closed"
    /\ UNCHANGED <<tool_calls, request, connected, event_queue, full_response,
                   assistant_message_id, last_save_length, saved_tool_call_ids,
                   tool_calls_data, nEvents, finalText, outcome, incrFail, putLog,
                   turns>>

\* Mutant: the history is read before the user message is stored.
StartTurn_HistoryBeforeSave ==
    /\ genPc = "init"
    /\ ParseConversationId(request.conversation_id).ok
    /\ \E fp \in StartFailPoints :
         LET given == ParseConversationId(request.conversation_id).id
             cc == create_conversation(conversations, nextId, given)
             sm == save_message(messages, cc.nextId, cc.id, "user",
                                request.message, NoId, fp = 2)
         IN
         /\ conversations' = IF fp = 1 THEN conversations ELSE cc.conversations
         /\ conversation_id' = IF fp = 1 THEN conversation_id ELSE cc.id
         /\ messages' = IF fp \in {0, 3} THEN sm.messages ELSE messages
         /\ nextId' = CASE fp = 1 -> nextId
                        [] fp = 2 -> cc.nextId
                        [] OTHER -> cc.nextId + 1
         /\ convLog' = IF fp = 1 THEN convLog
                        ELSE Append(convLog,
                                    ConvRecord(given, conversations, cc))
         /\ lastCall' = IF fp = 1 THEN lastCall
                        ELSE CallRecord("user", NoId, request.message, sm, messages)
         /\ history' = IF fp # 0 THEN history
                        ELSE HistoryRecord(cc.id, HistoryLimit, messages,
                                 tool_calls,
                                 get_conversation_history(messages,
                                     tool_calls, cc.id, HistoryLimit))
         /\ failed' = CASE fp = 0 -> failed
                        [] fp = 1 -> Append(failed, "create_conversation")
                        [] fp = 2 -> Append(failed, "save_message")
                        [] fp = 3 -> Append(failed, "get_conversation_history")
         /\ IF fp = 0
            THEN /\ prodPc' = "run"
                 /\ frames' = WriteFrame(frames, ConversationIdFrame(cc.id))
                 /\ genPc' = "loop"
            ELSE /\ prodPc' = prodPc
                 /\ frames' = frames
                 /\ genPc' = "closed"
    /\ UNCHANGED <<tool_calls, request, connected, event_queue, full_response,
                   assistant_message_id, last_save_length, saved_tool_call_ids,
                   tool_calls_data, nEvents, finalText, outcome, incrFail, putLog,
                   turns>>

\* stream_chat_response up to its first yield: resolve the conversation,
\* save the user message, read the trailing history, create the Producer
\* task and yield the conversation_id frame.  No await lies between
\* create_task and the yield, so the Producer has not run yet.  A store
\* call that raises ends the generator before the task exists.
StartTurn ==
    /\ genPc = "init"
    /\ ParseConversationId(request.conversation_id).ok
    /\ \E fp \in StartFailPoints :
         LET given == ParseConversationId(request.conversation_id).id
             cc == create_conversation(conversations, nextId, given)
             sm == save_message(messages, cc.nextId, cc.id, "user",
                                request.message, NoId, fp = 2)
         IN
         /\ conversations' = IF fp = 1 THEN conversations ELSE cc.conversations
         /\ conversation_id' = IF fp = 1 THEN conversation_id ELSE cc.id
         /\ messages' = IF fp \in {0, 3} THEN sm.messages ELSE messages
         /\ nextId' = CASE fp = 1 -> nextId
                        [] fp = 2 -> cc.nextId
                        [] OTHER -> cc.nextId + 1
         /\ convLog' = IF fp = 1 THEN convLog
                        ELSE Append(convLog,
                                    ConvRecord(given, conversations, cc))
         /\ lastCall' = IF fp = 1 THEN lastCall
                        ELSE CallRecord("user", NoId, request.message, sm, messages)
         /\ history' = IF fp # 0 THEN history
                        ELSE HistoryRecord(cc.id, HistoryLimit, sm.messages,
                                 tool_calls,
                                 get_conversation_history(sm.messages,
                                     tool_calls, cc.id, HistoryLimit))
         /\ failed' = CASE fp = 0 -> failed
                        [] fp = 1 -> Append(failed, "create_conversation")
                        [] fp = 2 -> Append(failed, "save_message")
                        [] fp = 3 -> Append(failed, "get_conversation_history")
         /\ IF fp = 0
            THEN /\ prodPc' = "run"
                 /\ frames' = WriteFrame(frames, ConversationIdFrame(cc.id))
                 /\ genPc' = "loop"
            ELSE /\ prodPc' = prodPc
                 /\ frames' = frames
                 /\ genPc' = "closed"
    /\ UNCHANGED <<tool_calls, request, connected, event_queue, full_response,
                   assistant_message_id, last_save_length, saved_tool_call_ids,
                   tool_calls_data, nEvents, finalText, outcome, incrFail, putLog,
                   turns>>

\* ------------------------------------------------- the Delivery Loop
IsTerminal(event) == event.type \in {"done", "error"}

\* Mutant: a failed frame write ends the Producer task along with the loop.
Deliver_CancelsProducer ==
    /\ genPc = "loop"
    /\ event_queue # <<>>
    /\ LET event == Head(event_queue) IN
       /\ event_queue' = Tail(event_queue)
       /\ frames' = WriteFrame(frames, event)
       /\ genPc' = IF ~connected \/ IsTerminal(event) THEN "final" ELSE "loop"
    /\ prodPc' = IF ~connected THEN "done" ELSE prodPc
    /\ UNCHANGED <<storeVars, request, conversation_id, connected,
                   full_response, assistant_message_id, last_save_length,
                   saved_tool_call_ids, tool_calls_data,
                   nEvents, failed, finalText, outcome,
                   lastCall, incrFail, putLog, convLog, history, turns>>

\* One pass of the loop with an event in the queue: take it, write its
\* frame; a failed write breaks out, and so does a done or error event.
Deliver ==
    /\ genPc = "loop"
    /\ event_queue # <<>>
    /\ LET event == Head(event_queue) IN
       /\ event_queue' = Tail(event_queue)
       /\ frames' = WriteFrame(frames, event)
       /\ genPc' = IF ~connected \/ IsTerminal(event) THEN "final" ELSE "loop"
    /\ UNCHANGED <<storeVars, request, conversation_id, connected, prodVars,
                   nEvents, failed, finalText, outcome,
                   lastCall, incrFail, putLog, convLog, history, turns>>

\* Mutant: the timeout branch never tests background_task.done().
Timeout_NeverBreaks ==
    /\ genPc = "loop"
    /\ event_queue = <<>>
    /\ UNCHANGED vars

\* Mutant: a timeout leaves the loop whether or not the task is done.
Timeout_AlwaysBreaks ==
    /\ genPc = "loop"
    /\ event_queue = <<>>
    /\ genPc' = "final"
    /\ UNCHANGED <<storeVars, request, conversation_id, frames, connected,
                   event_queue, prodVars, nEvents, failed, finalText, outcome,
                   lastCall, incrFail, putLog, convLog, history, turns>>

\* wait_for(event_queue.get(), timeout=1.0) times out (only an empty queue
\* lets it): break when the Producer task is done, else wait again.
Timeout ==
    /\ genPc = "loop"
    /\ event_queue = <<>>
    /\ genPc' = IF prodPc = "done" THEN "final" ELSE "loop"
    /\ UNCHANGED <<storeVars, request, conversation_id, frames, connected,
                   event_queue, prodVars, nEvents, failed, finalText, outcome,
                   lastCall, incrFail, putLog, convLog, history, turns>>

\* Mutant: the generator returns after the loop without the last write.
FinalDone_Skipped ==
    /\ genPc = "final"
    /\ genPc' = "closed"
    /\ UNCHANGED <<storeVars, request, conversation_id, frames, connected,
                   event_queue, prodVars, nEvents, failed, finalText, outcome,
                   lastCall, incrFail, putLog, convLog, history, turns>>

\* After the loop: one last done frame, a failed write swallowed.
FinalDone ==
    /\ genPc = "final"
    /\ frames' = WriteFrame(frames, [type |-> "done"])
    /\ genPc' = "closed"
    /\ UNCHANGED <<storeVars, request, conversation_id, connected, event_queue,
                   prodVars, nEvents, failed, finalText, outcome,
                   lastCall, incrFail, putLog, convLog, history, turns>>

\* The client goes away: from now on every frame write fails.
Disconnect ==
    /\ connected
    /\ genPc \notin {"closed", "rejected"}
    /\ connected' = FALSE
    /\ UNCHANGED <<storeVars, request, conversation_id, genPc, frames,
                   event_queue, prodVars, nEvents, failed, finalText, outcome,
                   lastCall, incrFail, putLog, convLog, history, turns>>

\* The consumer stops iterating and closes the suspended generator
\* (GeneratorExit / CancelledError, which no except clause here catches).
Abandon ==
    /\ genPc \in {"loop", "final"}
    /\ ~connected
    /\ genPc' = "closed"
    /\ UNCHANGED <<storeVars, request, conversation_id, frames, connected,
                   event_queue, prodVars, nEvents, failed, finalText, outcome,
                   lastCall, incrFail, putLog, convLog, history, turns>>

\* ------------------------------------------------------ the Producer
\* The Producer's locals, the queue and the store tables it writes, as one
\* record: each handler below maps the record before an engine event to
\* the record after it.
Cur ==
    [messages |-> messages, tool_calls |-> tool_calls, nextId |-> nextId,
     event_queue |-> event_queue, prodPc |-> prodPc,
     full_response |-> full_response,
     assistant_message_id |-> assistant_message_id,
     last_save_length |-> last_save_length,
     saved_tool_call_ids |-> saved_tool_call_ids,
     tool_calls_data |-> tool_calls_data,
     failed |-> failed, finalText |-> finalText, outcome |-> outcome,
     lastCall |-> lastCall,
     incrFail |-> incrFail, putLog |-> putLog,
     conversation_id |-> conversation_id]

Commit(s) ==
    /\ messages' = s.messages
    /\ tool_calls' = s.tool_calls
    /\ nextId' = s.nextId
    /\ event_queue' = s.event_queue
    /\ prodPc' = s.prodPc
    /\ full_response' = s.full_response
    /\ assistant_message_id' = s.assistant_message_id
    /\ last_save_length' = s.last_save_length
    /\ saved_tool_call_ids' = s.saved_tool_call_ids
    /\ tool_calls_data' = s.tool_calls_data
    /\ failed' = s.failed
    /\ finalText' = s.finalText
    /\ outcome' = s.outcome
    /\ lastCall' = s.lastCall
    /\ incrFail' = s.incrFail
    /\ putLog' = s.putLog
    /\ nEvents' = nEvents + 1
    /\ UNCHANGED <<conversations, genVars, convLog, history, turns>>

\* Mutant: the queue hands out the newest event first.
Put_Front(s, event) ==
    [s EXCEPT !.event_queue = <<event>> \o @, !.putLog = Append(@, event)]

\* event_queue.put on the unbounded asyncio.Queue(): appends, never waits.
Put(s, event) ==
    [s EXCEPT !.event_queue = Append(@, event), !.putLog = Append(@, event)]

\* f"{tool_name}_{hash(str(input))}".  Every input is {"query": q}, whose
\* str() is determined by q, and hash() separates the model's inputs: the
\* key is the pair of the name and the input.
ToolCallId(tc) == <<tc.tool_name, tc.input>>

\* Mutant: the key is never recorded.
MarkSaved_Forget(saved, key) == saved

\* saved_tool_call_ids.add(tool_call_id), after save_tool_call returned.
MarkSaved(saved, key) == saved \cup {key}

\* Which tool calls a flush considers: "" stands for no filter on the name.
AnyTool == ""

\* The sets of positions of tool_calls_data at which save_tool_call raises
\* if it is called there, within what is left of the failure budget.
FailSets(s) ==
    {F \in SUBSET (1 .. Len(s.tool_calls_data)) :
        Cardinality(F) <= MaxStoreFailures - Len(s.failed)}

\* Mutant: the flush writes every tracked call, completed or not.
RECURSIVE SaveToolCalls_Unfinished(_, _, _, _)
SaveToolCalls_Unfinished(s, i, only, failAt) ==
    IF i > Len(s.tool_calls_data) THEN s
    ELSE LET tc == s.tool_calls_data[i]
             due == /\ only = AnyTool \/ tc.tool_name = only
                    /\ ToolCallId(tc) \notin s.saved_tool_call_ids
             next == IF ~due THEN s
                     ELSE IF i \in failAt
                     THEN [s EXCEPT !.failed = Append(@, "save_tool_call")]
                     ELSE [s EXCEPT
                             !.tool_calls = save_tool_call(@, s.nextId,
                                              s.assistant_message_id, tc),
                             !.nextId = @ + 1,
                             !.saved_tool_call_ids =
                                 MarkSaved(@, ToolCallId(tc))]
         IN SaveToolCalls_Unfinished(next, i + 1, only, failAt)

\* The flush loop "for tool_call in tool_calls_data", from position i: each
\* completed call (of the tool `only`, when given) whose key is not in
\* saved_tool_call_ids is written; the key is added after the write
\* returned, and an exception of the write is swallowed.
RECURSIVE SaveToolCalls(_, _, _, _)
SaveToolCalls(s, i, only, failAt) ==
    IF i > Len(s.tool_calls_data) THEN s
    ELSE LET tc == s.tool_calls_data[i]
             due == /\ only = AnyTool \/ tc.tool_name = only
                    /\ tc.result # None
                    /\ ToolCallId(tc) \notin s.saved_tool_call_ids
             next == IF ~due THEN s
                     ELSE IF i \in failAt
                     THEN [s EXCEPT !.failed = Append(@, "save_tool_call")]
                     ELSE [s EXCEPT
                             !.tool_calls = save_tool_call(@, s.nextId,
                                              s.assistant_message_id, tc),
                             !.nextId = @ + 1,
                             !.saved_tool_call_ids =
                                 MarkSaved(@, ToolCallId(tc))]
         IN SaveToolCalls(next, i + 1, only, failAt)

\* Mutant: the flush at the first fragment and at the final output is missing.
FlushToolCalls_Skip(s, only, failAt) == s

\* "if assistant_message_id and tool_calls_data: for tool_call in ...".
FlushToolCalls(s, only, failAt) ==
    IF s.assistant_message_id # NoId /\ s.tool_calls_data # <<>>
    THEN SaveToolCalls(s, 1, only, failAt)
    ELSE s

\* Mutant: the save of the partial text is outside any try, so its
\* exception leaves the task without an error event.
OnException_SaveEscapes(s, message) ==
    LET r == save_message(s.messages, s.nextId, s.conversation_id, "assistant",
                          s.full_response, s.assistant_message_id, FALSE)
    IN IF s.full_response # <<>> /\ s.assistant_message_id # NoId /\ r.raised
       THEN [s EXCEPT !.prodPc = "done", !.outcome = "crashed"]
       ELSE [Put(s, [type |-> "error", message |-> message])
               EXCEPT !.prodPc = "done", !.outcome = "error"]

\* Mutant: the except handler puts done after its error event.
OnException_ThenDone(s, message) ==
    LET r == save_message(s.messages, s.nextId, s.conversation_id, "assistant",
                          s.full_response, s.assistant_message_id, FALSE)
        saved == IF s.full_response # <<>> /\ s.assistant_message_id # NoId
                 THEN [s EXCEPT
                         !.messages = r.messages,
                         !.lastCall = CallRecord("partial",
                                         s.assistant_message_id,
                                         s.full_response, r, s.messages)]
                 ELSE s
    IN [Put(Put(saved, [type |-> "error", message |-> message]),
            [type |-> "done"])
          EXCEPT !.prodPc = "done", !.outcome = "error"]

\* The except handler of process_agent_stream: save the partial text into
\* the existing assistant Message (an exception of that save is caught),
\* then put the error event; the task ends.
OnException(s, message) ==
    LET r == save_message(s.messages, s.nextId, s.conversation_id, "assistant",
                          s.full_response, s.assistant_message_id, FALSE)
        saved == IF s.full_response # <<>> /\ s.assistant_message_id # NoId
                 THEN [s EXCEPT
                         !.messages = r.messages,
                         !.lastCall = CallRecord("partial",
                                         s.assistant_message_id,
                                         s.full_response, r, s.messages)]
                 ELSE s
    IN [Put(saved, [type |-> "error", message |-> message])
          EXCEPT !.prodPc = "done", !.outcome = "error"]

\* Mutant: the threshold test never fires.
CheckpointDue_Never(s) == FALSE

\* "elif len(full_response) - last_save_length >= SAVE_INTERVAL".
CheckpointDue(s) ==
    StrLen(s.full_response) - s.last_save_length >= SAVE_INTERVAL

\* Mutant: the first fragment creates the assistant Message and leaves
\* the completed tool calls to a later event.
OnStream_CreateOnly(s, content, fail, failAt) ==
    LET s1 == Put([s EXCEPT !.full_response = Concat(@, content)],
                  [type |-> "content_delta", content |-> content])
        r == save_message(s1.messages, s1.nextId, s1.conversation_id, "assistant",
                          s1.full_response, s1.assistant_message_id, fail)
        s2 == [s1 EXCEPT !.lastCall =
                  CallRecord(IF s1.assistant_message_id = NoId
                             THEN "first" ELSE "checkpoint",
                             s1.assistant_message_id, s1.full_response, r,
                             s1.messages)]
    IN
    IF s1.assistant_message_id = NoId
    THEN IF r.raised
         THEN OnException([s2 EXCEPT !.failed = Append(@, "save_message"),
                                     !.incrFail = TRUE], "store")
         ELSE [s2 EXCEPT !.messages = r.messages,
                         !.nextId = @ + 1,
                         !.assistant_message_id = r.id]
    ELSE IF CheckpointDue(s1)
    THEN IF r.raised
         THEN OnException([s2 EXCEPT !.incrFail = TRUE], "TypeError")
         ELSE FlushToolCalls([s2 EXCEPT !.messages = r.messages,
                                        !.last_save_length =
                                            StrLen(s1.full_response)],
                             AnyTool, failAt)
    ELSE s1

\* on_chat_model_stream with a non-empty chunk.content: extend the running
\* response, put the delta, then the incremental save.  The first fragment
\* inserts the assistant Message and flushes the completed tool calls;
\* later, once SAVE_INTERVAL characters have gathered, a checkpoint passes
\* message_id.  Neither save is inside a try of its own: an exception
\* reaches the except handler of the task.
OnStream(s, content, fail, failAt) ==
    LET s1 == Put([s EXCEPT !.full_response = Concat(@, content)],
                  [type |-> "content_delta", content |-> content])
        r == save_message(s1.messages, s1.nextId, s1.conversation_id, "assistant",
                          s1.full_response, s1.assistant_message_id, fail)
        s2 == [s1 EXCEPT !.lastCall =
                  CallRecord(IF s1.assistant_message_id = NoId
                             THEN "first" ELSE "checkpoint",
                             s1.assistant_message_id, s1.full_response, r,
                             s1.messages)]
    IN
    IF s1.assistant_message_id = NoId
    THEN IF r.raised
         THEN OnException([s2 EXCEPT !.failed = Append(@, "save_message"),
                                     !.incrFail = TRUE], "store")
         ELSE FlushToolCalls([s2 EXCEPT !.messages = r.messages,
                                        !.nextId = @ + 1,
                                        !.assistant_message_id = r.id],
                             AnyTool, failAt)
    ELSE IF CheckpointDue(s1)
    THEN IF r.raised
         THEN OnException([s2 EXCEPT !.incrFail = TRUE], "TypeError")
         ELSE FlushToolCalls([s2 EXCEPT !.messages = r.messages,
                                        !.last_save_length =
                                            StrLen(s1.full_response)],
                             AnyTool, failAt)
    ELSE s1

\* on_tool_start: track the invocation, put the tool_call event.
OnToolStart(s, name, input) ==
    Put([s EXCEPT !.tool_calls_data =
            Append(@, [tool_name |-> name, input |-> input, result |-> None])],
        [type |-> "tool_call", tool |-> name, input |-> input])

\* Mutant: the newest unresolved invocation of the name is paired.
FirstUnresolved_Newest(tcs, name) ==
    LET open == {i \in 1 .. Len(tcs) :
                    tcs[i].tool_name = name /\ tcs[i].result = None}
    IN IF open = {} THEN 0 ELSE CHOOSE i \in open : \A j \in open : i >= j

\* The position of the first tracked invocation of `name` whose result is
\* still None; 0 when there is none.
FirstUnresolved(tcs, name) ==
    LET open == {i \in 1 .. Len(tcs) :
                    tcs[i].tool_name = name /\ tcs[i].result = None}
    IN IF open = {} THEN 0 ELSE CHOOSE i \in open : \A j \in open : i <= j

\* Mutant: the tracked invocation keeps the whole output; only the
\* relayed event is cut.
OnToolEnd_StoresWholeOutput(s, name, output, failAt) ==
    LET tool_result_str == Prefix(output, ResultLimit)
        k == FirstUnresolved(s.tool_calls_data, name)
        s1 == IF k = 0 THEN s
              ELSE [s EXCEPT !.tool_calls_data[k].result = output]
        s2 == IF s1.assistant_message_id # NoId
              THEN SaveToolCalls(s1, 1, name, failAt)
              ELSE s1
    IN Put(s2, [type |-> "tool_result", tool |-> name,
                result |-> tool_result_str])

\* Mutant: the completed call is written at once, whether or not the
\* assistant Message exists.
OnToolEnd_SavesAtOnce(s, name, output, failAt) ==
    LET tool_result_str == Prefix(output, ResultLimit)
        k == FirstUnresolved(s.tool_calls_data, name)
        s1 == IF k = 0 THEN s
              ELSE [s EXCEPT !.tool_calls_data[k].result = tool_result_str]
        s2 == SaveToolCalls(s1, 1, name, failAt)
    IN Put(s2, [type |-> "tool_result", tool |-> name,
                result |-> tool_result_str])

\* Mutant: a completion that matches no unresolved invocation is tracked
\* as a call of its own.
OnToolEnd_TracksUnmatched(s, name, output, failAt) ==
    LET tool_result_str == Prefix(output, ResultLimit)
        k == FirstUnresolved(s.tool_calls_data, name)
        s1 == IF k = 0
              THEN [s EXCEPT !.tool_calls_data =
                      Append(@, [tool_name |-> name, input |-> "q1",
                                 result |-> tool_result_str])]
              ELSE [s EXCEPT !.tool_calls_data[k].result = tool_result_str]
        s2 == IF s1.assistant_message_id # NoId
              THEN SaveToolCalls(s1, 1, name, failAt)
              ELSE s1
    IN Put(s2, [type |-> "tool_result", tool |-> name,
                result |-> tool_result_str])

\* on_tool_end: str(output)[:500] becomes the result of the first
\* unresolved invocation of that name; with the assistant Message already
\* created the completed calls of that name are written; the tool_result
\* event is put.
OnToolEnd(s, name, output, failAt) ==
    LET tool_result_str == Prefix(output, ResultLimit)
        k == FirstUnresolved(s.tool_calls_data, name)
        s1 == IF k = 0 THEN s
              ELSE [s EXCEPT !.tool_calls_data[k].result = tool_result_str]
        s2 == IF s1.assistant_message_id # NoId
              THEN SaveToolCalls(s1, 1, name, failAt)
              ELSE s1
    IN Put(s2, [type |-> "tool_result", tool |-> name,
                result |-> tool_result_str])

\* Mutant: the failure of the final save is reported to the client.
FinalSaveRaised_Surfaced(s, r) ==
    Put(s, [type |-> "error", message |-> "store"])

\* "except Exception as save_err" around the final save: the exception is
\* printed and dropped.
FinalSaveRaised(s, r) ==
    IF r.typeError THEN s ELSE [s EXCEPT !.failed = Append(@, "save_message")]

\* Mutant: the handler of the final output does not return; the task
\* goes on to the next engine event.
OnChainEnd_KeepsConsuming(s, final_output, fail, failAt) ==
    LET s1 == [s EXCEPT !.full_response = final_output,
                        !.finalText = final_output]
        r == save_message(s1.messages, s1.nextId, s1.conversation_id, "assistant",
                          s1.full_response, s1.assistant_message_id, fail)
        s2 == [s1 EXCEPT !.lastCall =
                  CallRecord("final", s1.assistant_message_id,
                             s1.full_response, r, s1.messages)]
        s3 == IF r.raised
              THEN FinalSaveRaised(s2, r)
              ELSE FlushToolCalls(
                     IF s2.assistant_message_id # NoId
                     THEN [s2 EXCEPT !.messages = r.messages]
                     ELSE [s2 EXCEPT !.messages = r.messages,
                                     !.nextId = @ + 1,
                                     !.assistant_message_id = r.id],
                     AnyTool, failAt)
    IN [Put(s3, [type |-> "done"]) EXCEPT !.outcome = "final"]

\* on_chain_end of the AgentExecutor with a non-empty output["output"]:
\* the final text replaces the running response; inside one try the
\* assistant Message is saved (with message_id when it exists, inserted
\* otherwise) and the remaining tool calls are flushed; an exception skips
\* the rest of the try.  Then done is put and the task returns.
OnChainEnd(s, final_output, fail, failAt) ==
    LET s1 == [s EXCEPT !.full_response = final_output,
                        !.finalText = final_output]
        r == save_message(s1.messages, s1.nextId, s1.conversation_id, "assistant",
                          s1.full_response, s1.assistant_message_id, fail)
        s2 == [s1 EXCEPT !.lastCall =
                  CallRecord("final", s1.assistant_message_id,
                             s1.full_response, r, s1.messages)]
        s3 == IF r.raised
              THEN FinalSaveRaised(s2, r)
              ELSE FlushToolCalls(
                     IF s2.assistant_message_id # NoId
                     THEN [s2 EXCEPT !.messages = r.messages]
                     ELSE [s2 EXCEPT !.messages = r.messages,
                                     !.nextId = @ + 1,
                                     !.assistant_message_id = r.id],
                     AnyTool, failAt)
    IN [Put(s3, [type |-> "done"]) EXCEPT !.prodPc = "done",
                                          !.outcome = "final"]

\* The turn has streamed no text and has run MaxToolCalls tool calls to
\* their completion.
ToolsOnlyTurn ==
    /\ full_response = <<>>
    /\ Len(tool_calls_data) = MaxToolCalls
    /\ \A i \in DOMAIN tool_calls_data : tool_calls_data[i].result # None

\* The engine events of a turn: MaxEvents of them, and one more for a turn
\* that spent them on tool calls alone, so that such a turn can still end.
EventBudget == IF ToolsOnlyTurn THEN MaxEvents + 1 ELSE MaxEvents

\* Mutant: the queue holds one event and put waits for room.
Consuming_WaitsForRoom ==
    prodPc = "run" /\ nEvents < MaxEvents /\ event_queue = <<>>

\* The task takes the next engine event while the engine has one.  An event
\* no branch handles (another event type, a chunk with empty content, an
\* on_chain_end without a non-empty output) changes nothing: it is a
\* stuttering step and is not counted.
Consuming == prodPc = "run" /\ nEvents < EventBudget

StreamToken ==
    /\ Consuming
    /\ \E content \in Deltas, fail \in FailChoices, failAt \in FailSets(Cur) :
         Commit(OnStream(Cur, content, fail, failAt))

ToolStart ==
    /\ Consuming
    /\ Len(tool_calls_data) < MaxToolCalls
    /\ \E name \in ToolNames :
         \E input \in ToolInputs(name) :
            Commit(OnToolStart(Cur, name, input))

ToolEnd ==
    /\ Consuming
    /\ \E name \in ToolNames, failAt \in FailSets(Cur) :
         Commit(OnToolEnd(Cur, name, ToolOutput(name), failAt))

ChainEnd ==
    /\ Consuming
    /\ \E final_output \in Finals, fail \in FailChoices,
          failAt \in FailSets(Cur) :
         Commit(OnChainEnd(Cur, final_output, fail, failAt))

\* astream_events raises.
EngineRaise ==
    /\ Consuming
    /\ Commit(OnException(Cur, "engine"))

\* Mutant: a stream that runs dry is closed with a done event.
StreamEnd_PutsDone ==
    /\ Consuming
    /\ Commit([Put(Cur, [type |-> "done"])
                 EXCEPT !.prodPc = "done", !.outcome = "exhausted"])

\* astream_events is exhausted: the task ends, nothing is put.
StreamEnd ==
    /\ Consuming
    /\ Commit([Cur EXCEPT !.prodPc = "done", !.outcome = "exhausted"])

Next ==
    \/ RejectRequest
    \/ StartTurn
    \/ Deliver
    \/ Timeout
    \/ FinalDone
    \/ Disconnect
    \/ Abandon
    \/ StreamToken
    \/ ToolStart
    \/ ToolEnd
    \/ ChainEnd
    \/ EngineRaise
    \/ StreamEnd

Spec == Init /\ [][Next]_vars

\* ------------------------------------- one turn of an accepted request
\* A turn whose request names no conversation: the route has accepted it
\* and stream_chat_response runs from its first line.
TurnInit == Init /\ request.conversation_id = NoConv

TurnNext ==
    \/ StartTurn
    \/ Deliver
    \/ Timeout
    \/ FinalDone
    \/ Disconnect
    \/ Abandon
    \/ StreamToken
    \/ ToolStart
    \/ ToolEnd
    \/ ChainEnd
    \/ EngineRaise
    \/ StreamEnd

TurnSpec == TurnInit /\ [][TurnNext]_vars

\* ---------------------------------------- conversation resolution alone
\* Calls of create_conversation made one after the other.
MaxConvCalls == 4
\* The identifier a call is given: none, one the store holds, one it lacks.
ConvInputs == {NoConv, KnownConv, UnknownConv}

\* One call of ConversationService.create_conversation, as the start of
\* a turn makes it (chat_service.py lines 48-52), on the table the calls
\* before it left.
CreateConversationCall ==
    /\ Len(convLog) < MaxConvCalls
    /\ \E cid \in ConvInputs :
         LET cc == create_conversation(conversations, nextId, cid) IN
         /\ conversations' = cc.conversations
         /\ nextId' = cc.nextId
         /\ convLog' = Append(convLog, ConvRecord(cid, conversations, cc))
    /\ UNCHANGED <<messages, tool_calls, genVars, event_queue, prodVars,
                   nEvents, failed, finalText, outcome, lastCall, incrFail,
                   putLog, history, turns>>

ConvNext == CreateConversationCall

ConvSpec == Init /\ [][ConvNext]_vars

\* -------------------------------------------- history retrieval alone
\* Messages and tool calls written before the history is read.
MaxHistMessages == 5
MaxHistToolCalls == 2

\* A message is saved in one of two conversations; the roles of a
\* conversation alternate, the user first.
HistSaveMessage ==
    /\ history = NoHistory
    /\ Len(messages) < MaxHistMessages
    /\ \E conv \in {KnownConv, UnknownConv} :
         LET role == IF Len(ConversationMessages(messages, conv)) % 2 = 0
                     THEN "user" ELSE "assistant"
             r == save_message(messages, nextId, conv, role,
                               Run("m", Len(messages) + 1), NoId, FALSE)
         IN /\ messages' = r.messages
            /\ nextId' = nextId + 1
    /\ UNCHANGED <<conversations, tool_calls, genVars, event_queue, prodVars,
                   nEvents, failed, finalText, outcome, lastCall, incrFail,
                   putLog, convLog, history, turns>>

\* A tool call is saved under one of the assistant messages.
HistSaveToolCall ==
    /\ history = NoHistory
    /\ Len(tool_calls) < MaxHistToolCalls
    /\ \E i \in DOMAIN messages, name \in ToolNames :
         /\ messages[i].role = "assistant"
         /\ tool_calls' = save_tool_call(tool_calls, nextId, messages[i].id,
                              [tool_name |-> name, input |-> "q1",
                               result |-> Prefix(ToolOutput(name), ResultLimit)])
         /\ nextId' = nextId + 1
    /\ UNCHANGED <<conversations, messages, genVars, event_queue, prodVars,
                   nEvents, failed, finalText, outcome, lastCall, incrFail,
                   putLog, convLog, history, turns>>

\* get_conversation_history is called on the store as it stands.
ReadHistory ==
    /\ \E conv \in {KnownConv, UnknownConv}, limit \in 1 .. HistoryLimit + 1 :
         history' = HistoryRecord(conv, limit, messages, tool_calls,
                        get_conversation_history(messages, tool_calls, conv,
                                                 limit))
    /\ UNCHANGED <<storeVars, genVars, event_queue, prodVars, nEvents, failed,
                   finalText, outcome, lastCall, incrFail, putLog, convLog,
                   turns>>

HistNext ==
    \/ HistSaveMessage
    \/ HistSaveToolCall
    \/ ReadHistory

\* The store is filled and read directly: no request is in play.
HistInit == Init /\ request.conversation_id = NoConv

HistSpec == HistInit /\ [][HistNext]_vars

\* ------------------------------------ a turn in a conversation with a past
\* format_history_for_agent: a HumanMessage for each user row and an
\* AIMessage for each assistant row, in order; other roles are dropped.
RECURSIVE format_history_for_agent(_)
format_history_for_agent(h) ==
    IF h = <<>> THEN <<>>
    ELSE (IF h[1].role = "user"
          THEN <<[type |-> "HumanMessage", content |-> h[1].content]>>
          ELSE IF h[1].role = "assistant"
          THEN <<[type |-> "AIMessage", content |-> h[1].content]>>
          ELSE <<>>)
         \o format_history_for_agent(Tail(h))

\* The input of astream_events: the request's message and the formatted
\* history the prologue read.
agent_input ==
    [input |-> request.message,
     chat_history |-> format_history_for_agent(history.rows)]

\* The store holds earlier messages (and their tool calls) when the turn
\* starts, in the conversation the request names or in another one.
PriorInit == Init /\ request.conversation_id \in {NoConv, KnownConv}

PriorNext ==
    \/ HistSaveMessage
    \/ HistSaveToolCall
    \/ StartTurn

PriorSpec == PriorInit /\ [][PriorNext]_vars

\* ------------------------------------------- two turns at a time: steps
\* Engine events a turn consumes when two turns run together.
MaxTurnEvents == 3
\* The engine's text differs from turn to turn; both turns ask the same
\* tool the same thing.
TurnDelta(t) == IF t = 1 THEN Run("a", 40) ELSE Run("b", 60)
TurnFinal(t) == IF t = 1 THEN Run("f", 7) ELSE Run("a", 40) \o Run("b", 60)

oneTurnVars == <<genVars, event_queue, prodVars, nEvents, failed, finalText,
                 outcome, lastCall, incrFail, putLog, convLog, history>>

\* Mutant: the queue is an attribute of the service, shared by its turns.
QueueOf_Shared(t) == 1

\* "event_queue = asyncio.Queue()" is a local of the call: the queue turn
\* t puts into and takes from is its own.
QueueOf(t) == t

\* The record a handler of turn t works on: the turn's own state and the
\* tables of the store, which all turns share.
TurnCur(t) ==
    [messages |-> messages, tool_calls |-> tool_calls, nextId |-> nextId]
    @@ [turns[t] EXCEPT !.event_queue = turns[QueueOf(t)].event_queue]

\* The handling of one engine event by turn t, written back.
TurnCommit(t, s) ==
    /\ messages' = s.messages
    /\ tool_calls' = s.tool_calls
    /\ nextId' = s.nextId
    /\ turns' = [[turns EXCEPT ![t] =
                     [f \in DOMAIN turns[t] |->
                         IF f = "event_queue" THEN turns[t].event_queue
                         ELSE IF f = "nEvents" THEN s.nEvents + 1
                         ELSE s[f]]]
                   EXCEPT ![QueueOf(t)].event_queue = s.event_queue]
    /\ UNCHANGED <<conversations, oneTurnVars>>

\* The prologue of turn t up to its first yield.
TwoStartTurn(t) ==
    /\ turns[t].genPc = "init"
    /\ LET cc == create_conversation(conversations, nextId, TurnConv(t))
           sm == save_message(messages, cc.nextId, cc.id, "user",
                              request.message, NoId, FALSE)
       IN /\ conversations' = cc.conversations
          /\ messages' = sm.messages
          /\ nextId' = cc.nextId + 1
          /\ turns' = [turns EXCEPT
                         ![t].conversation_id = cc.id,
                         ![t].genPc = "loop",
                         ![t].prodPc = "run",
                         ![t].frames = <<ConversationIdFrame(cc.id)>>]
    /\ UNCHANGED <<tool_calls, oneTurnVars>>

TurnConsuming(t) ==
    turns[t].prodPc = "run" /\ turns[t].nEvents < MaxTurnEvents

TwoStreamToken(t) ==
    /\ TurnConsuming(t)
    /\ TurnCommit(t, OnStream(TurnCur(t), TurnDelta(t), FALSE, {}))

TwoToolStart(t) ==
    /\ TurnConsuming(t)
    /\ turns[t].tool_calls_data = <<>>
    /\ TurnCommit(t, OnToolStart(TurnCur(t), "rag", "q1"))

TwoToolEnd(t) ==
    /\ TurnConsuming(t)
    /\ turns[t].tool_calls_data # <<>>
    /\ TurnCommit(t, OnToolEnd(TurnCur(t), "rag", ToolOutput("rag"), {}))

TwoChainEnd(t) ==
    /\ TurnConsuming(t)
    /\ TurnCommit(t, OnChainEnd(TurnCur(t), TurnFinal(t), FALSE, {}))

TwoEngineRaise(t) ==
    /\ TurnConsuming(t)
    /\ TurnCommit(t, OnException(TurnCur(t), "engine"))

TwoStreamEnd(t) ==
    /\ TurnConsuming(t)
    /\ TurnCommit(t, [TurnCur(t) EXCEPT !.prodPc = "done",
                                        !.outcome = "exhausted"])

\* One pass of the Delivery Loop of turn t, its client connected.
TwoDeliver(t) ==
    /\ turns[t].genPc = "loop"
    /\ turns[QueueOf(t)].event_queue # <<>>
    /\ LET event == Head(turns[QueueOf(t)].event_queue) IN
       turns' = [[turns EXCEPT
                    ![t].frames = Append(@, event),
                    ![t].genPc = IF IsTerminal(event) THEN "final" ELSE "loop"]
                  EXCEPT ![QueueOf(t)].event_queue = Tail(@)]
    /\ UNCHANGED <<storeVars, oneTurnVars>>

\* The timeout of turn t's loop once its task is done (while the task
\* runs a timeout changes nothing).
TwoTimeout(t) ==
    /\ turns[t].genPc = "loop"
    /\ turns[QueueOf(t)].event_queue = <<>>
    /\ turns[t].prodPc = "done"
    /\ turns' = [turns EXCEPT ![t].genPc = "final"]
    /\ UNCHANGED <<storeVars, oneTurnVars>>

TwoFinalDone(t) ==
    /\ turns[t].genPc = "final"
    /\ turns' = [turns EXCEPT ![t].frames = Append(@, [type |-> "done"]),
                              ![t].genPc = "closed"]
    /\ UNCHANGED <<storeVars, oneTurnVars>>

TwoNext ==
    \/ \E t \in TurnIds : TwoStartTurn(t)
    \/ \E t \in TurnIds : TwoStreamToken(t)
    \/ \E t \in TurnIds : TwoToolStart(t)
    \/ \E t \in TurnIds : TwoToolEnd(t)
    \/ \E t \in TurnIds : TwoChainEnd(t)
    \/ \E t \in TurnIds : TwoEngineRaise(t)
    \/ \E t \in TurnIds : TwoStreamEnd(t)
    \/ \E t \in TurnIds : TwoDeliver(t)
    \/ \E t \in TurnIds : TwoTimeout(t)
    \/ \E t \in TurnIds : TwoFinalDone(t)

\* The request of the single-turn steps plays no part here.
TwoInit == Init /\ request.conversation_id = NoConv

TwoSpec == TwoInit /\ [][TwoNext]_vars

\* The fairness asyncio gives the generator while something consumes it:
\* a ready pass of the Delivery Loop, a due timeout and the final write
\* are eventually run.  The engine owes nothing: it may never end.  The
\* fair behaviours are explored for turns of at most MaxFairEvents events.
MaxFairEvents == 3
FairNext ==
    \/ RejectRequest
    \/ StartTurn
    \/ Deliver
    \/ Timeout
    \/ FinalDone
    \/ Disconnect
    \/ Abandon
    \/ StreamToken /\ nEvents' <= MaxFairEvents
    \/ ToolStart /\ nEvents' <= MaxFairEvents
    \/ ToolEnd /\ nEvents' <= MaxFairEvents
    \/ ChainEnd /\ nEvents' <= MaxFairEvents
    \/ EngineRaise /\ nEvents' <= MaxFairEvents
    \/ StreamEnd /\ nEvents' <= MaxFairEvents
FairSpec ==
    /\ Init
    /\ [][FairNext]_vars
    /\ WF_vars(Deliver)
    /\ WF_vars(Timeout)
    /\ WF_vars(FinalDone)

\* ------------------------------------------------------------ claims
\* The contents of the assistant Message rows of the store.
AssistantRows == {i \in DOMAIN messages : messages[i].role = "assistant"}
AssistantContents == {messages[i].content : i \in AssistantRows}

\* The tracked invocations whose completion was observed.
Completed == {i \in DOMAIN tool_calls_data : tool_calls_data[i].result # None}

\* A ToolCall row of that (tool name, input) pair is in the store.
HasRow(name, input) ==
    \E r \in DOMAIN tool_calls :
        tool_calls[r].tool_name = name /\ tool_calls[r].input = input

\* A done or error frame has reached the client.
TerminalDelivered == \E i \in DOMAIN frames : IsTerminal(frames[i])

\* C1: once the Producer has handled the final-output event with a
\* non-empty final text and terminated (no store call having raised), the
\* persisted assistant Message content is exactly that final text.
C1_FinalTextPersisted ==
    (prodPc = "done" /\ outcome = "final" /\ failed = <<>>)
        => AssistantContents = {finalText}

\* C2: the store never holds two ToolCall rows with the same (tool name,
\* input) pair.
C2_OneRowPerPair ==
    \A i, j \in DOMAIN tool_calls :
        (tool_calls[i].tool_name = tool_calls[j].tool_name
            /\ tool_calls[i].input = tool_calls[j].input) => i = j

\* C2 witness: with the client connected (so that the frames and the
\* queue hold every event put), a pair has its row and the stream has
\* reported the completion of that pair's tool at least twice.
C2_PairReportedAgain ==
    /\ connected
    /\ \E r \in DOMAIN tool_calls :
         LET put == frames \o event_queue
         IN Cardinality({k \in DOMAIN put :
                            /\ put[k].type = "tool_result"
                            /\ put[k].tool = tool_calls[r].tool_name}) >= 2

C4_DisconnectKeepsFinalContent ==
    (prodPc = "done" /\ outcome = "final" /\ ~connected
        /\ ~TerminalDelivered /\ failed = <<>>)
        => \E i \in AssistantRows : messages[i].content = finalText

\* C5: once the Producer task has finished, the Delivery Loop is left; and
\* with the Producer finished and the queue empty, the next step the
\* generator takes (the timeout) leaves the loop.
C5_LoopTerminates ==
    /\ (prodPc = "done") ~> (genPc \in {"final", "closed"})
    /\ [][(prodPc = "done" /\ genPc = "loop" /\ event_queue = <<>>
                /\ connected' = connected)
            => genPc' \in {"final", "closed"}]_vars

\* C5 witness: the Producer finished without done or error, the queue was
\* empty, the client is connected, and the loop was left on the timeout.
C5_LeftOnTimeout ==
    /\ prodPc = "done"
    /\ outcome = "exhausted"
    /\ connected
    /\ event_queue = <<>>
    /\ genPc = "final"

\* C6: a done or error frame is the last frame of the client stream.
C6_TerminalFrameIsLast ==
    \A i \in DOMAIN frames : IsTerminal(frames[i]) => i = Len(frames)

\* C7: the first frame the client receives is the conversation_id frame
\* with the turn's conversation identifier (the one of the request when
\* it gave one); no other frame is a conversation_id frame; a client that
\* is connected once the turn has started has received it; and nothing
\* is enqueued by the Producer before the turn has started.
C7_ConversationIdFirst ==
    /\ frames # <<>> =>
          /\ frames[1] = [type |-> "conversation_id",
                          conversation_id |-> conversation_id]
          /\ ParseConversationId(request.conversation_id).id # NoConv
                => frames[1].conversation_id = request.conversation_id
          /\ conversation_id \in ConvIds(conversations)
    /\ \A i \in DOMAIN frames : i > 1 => frames[i].type # "conversation_id"
    /\ (connected /\ prodPc # "idle") => frames # <<>>
    /\ genPc = "init" => (event_queue = <<>> /\ prodPc = "idle")

\* C7 witness: engine frames followed the conversation_id frame of a
\* conversation that was newly created.
C7_EngineFramesAfterId ==
    /\ Len(frames) >= 3
    /\ request.conversation_id = NoConv
    /\ frames[2].type \in {"content_delta", "tool_call"}

\* C8: there is at most one assistant Message row, and a save made with
\* its identifier (checkpoint, terminal write, error-path save) leaves
\* that row holding the content that was passed.
C8_OneRowUpdatedInPlace ==
    /\ Cardinality(AssistantRows) <= 1
    /\ (lastCall.kind \in {"checkpoint", "final", "partial"}
            /\ lastCall.message_id # NoId)
        => \E i \in AssistantRows :
              /\ messages[i].id = lastCall.message_id
              /\ messages[i].content = lastCall.content

\* C9: save_message with the identifier of an existing message returns
\* that identifier and adds no row; without an identifier, when the store
\* accepts the write, it adds exactly one row under the returned id.
C9_SaveMessageContract ==
    lastCall.kind # "none" =>
        IF lastCall.message_id # NoId
        THEN /\ ~lastCall.raised
             /\ lastCall.returned = lastCall.message_id
             /\ lastCall.rowsAfter = lastCall.rowsBefore
        ELSE ~lastCall.raised =>
                /\ lastCall.rowsAfter = lastCall.rowsBefore + 1
                /\ lastCall.returned # NoId

\* C10: the step in which an incremental write of the assistant Message
\* raises leaves the Producer running.
C10_IncrementalFailureContinues ==
    [][(~incrFail /\ incrFail') => prodPc' = "run"]_vars

\* -------------------------------------------------------------------
EventTypes(events) == [i \in DOMAIN events |-> events[i].type]
HasType(events, type) == \E i \in DOMAIN events : events[i].type = type

\* C11: a write of the assistant Message that raises during an
\* incremental save is not surfaced to the client: no error event is
\* enqueued and no error frame is written because of it.
C11_IncrementalFailureNotSurfaced ==
    incrFail => /\ ~HasType(putLog, "error")
                /\ ~HasType(frames, "error")

\* The final save of on_chain_end raised.
TerminalWriteFailed ==
    /\ outcome = "final"
    /\ lastCall.kind = "final"
    /\ lastCall.raised

\* C12: when the terminal write of the final text fails the Producer
\* still puts done as its last event and puts no error event; a connected
\* client whose Delivery Loop has ended has received done and no error
\* frame.
C12_TerminalFailureStillDone ==
    TerminalWriteFailed =>
        /\ putLog # <<>> /\ putLog[Len(putLog)] = [type |-> "done"]
        /\ ~HasType(putLog, "error")
        /\ ~HasType(frames, "error")
        /\ (connected /\ genPc \in {"final", "closed"})
              => HasType(frames, "done")

\* C12 witness: the final save raised in the store and the connected
\* client has the whole stream.
C12_ClientGotDoneAfterFailedFinalSave ==
    /\ TerminalWriteFailed
    /\ failed = <<"save_message">>
    /\ connected
    /\ genPc = "closed"
    /\ HasType(frames, "done")

\* The engine raised (no write of the assistant Message did) after at
\* least one content fragment had been streamed.
EngineFailedAfterContent ==
    /\ outcome = "error"
    /\ ~incrFail
    /\ full_response # <<>>

\* C13: when the engine raises after content was streamed, the error event
\* is the last one put, after the deltas, and the persisted assistant
\* Message content equals the concatenation of the fragments streamed
\* before the failure.
C13_PartialContentPersisted ==
    EngineFailedAfterContent =>
        /\ putLog[Len(putLog)].type = "error"
        /\ AssistantContents = {full_response}

ErrorEvents == {i \in DOMAIN putLog : putLog[i].type = "error"}

\* C14: the Producer task never ends with an exception of its own: a task
\* that is done ended on the final output, on the exhausted stream or in
\* its except handler; an incremental write that raised ended it in the
\* handler; and the handler put exactly one error event, the last event
\* of the task, whatever the save of the partial text did.  No other path
\* puts an error event.
C14_ExceptionsCaughtOneError ==
    /\ prodPc = "done" => outcome \in {"final", "error", "exhausted"}
    /\ incrFail => (prodPc = "done" /\ outcome = "error")
    /\ outcome = "error" =>
          /\ prodPc = "done"
          /\ Cardinality(ErrorEvents) = 1
          /\ Len(putLog) \in ErrorEvents
    /\ outcome # "error" => ErrorEvents = {}

\* C14 witness: the engine raised, the save of the partial text raised in
\* the handler, and the error event was put all the same.
C14_ErrorPutAfterFailedPartialSave ==
    /\ EngineFailedAfterContent
    /\ lastCall.kind = "partial"
    /\ lastCall.raised
    /\ Cardinality(ErrorEvents) = 1

\* The content of the assistant Message row the Producer created.
AssistantContent ==
    LET i == CHOOSE i \in DOMAIN messages :
                 messages[i].id = assistant_message_id
    IN messages[i].content

\* The accumulated characters the persisted assistant Message lacks.
Unsaved == StrLen(full_response) - StrLen(AssistantContent)

EngineHasEvent == prodPc = "run" /\ nEvents < MaxEvents

\* A step of the generator after the start of the turn: the Delivery Loop,
\* the final write, a failed client write, the close of the generator.
GeneratorStep ==
    /\ genPc # "init"
    /\ (genPc' # genPc \/ frames' # frames \/ connected' # connected)

\* C16: the Producer never waits on the Delivery Loop.  Whatever the
\* queue holds, whether or not the client is connected and whether or not
\* the generator still runs, the task can take the next thing the engine
\* stream does: a failure of the stream is handled at once, its event is
\* enqueued behind whatever the queue holds and the task ends, and the end
\* of the stream ends the task; and no step of the generator changes the
\* state of the Producer or what it has put.
C16_ProducerNeverWaits ==
    /\ [](EngineHasEvent =>
            /\ ENABLED (/\ EngineRaise
                        /\ Len(event_queue') = Len(event_queue) + 1
                        /\ prodPc' = "done")
            /\ ENABLED (StreamEnd /\ prodPc' = "done"))
    /\ [][GeneratorStep => UNCHANGED <<prodVars, outcome, putLog, nEvents>>]_vars

\* C16 witness: the client left before the first frame, the generator is
\* closed, and the Producer has run to its final output with everything
\* it put still in the queue.
C16_ProducerFinishedWithoutConsumer ==
    /\ ~connected
    /\ genPc = "closed"
    /\ frames = <<>>
    /\ prodPc = "done"
    /\ outcome = "final"
    /\ Len(event_queue) >= 3

\* C17: the queue never holds more undelivered events than a fixed
\* capacity.  The capacity of the claim does not grow with the turn, so a
\* turn can produce more events than it: the model's turn has MaxEvents
\* engine events, and the capacity tried is any one below that.
C17_QueueWithinCapacity == Len(event_queue) < MaxEvents

\* The frames between the conversation_id frame and the done frame that
\* is written after the Delivery Loop.
DeliveredFrames ==
    SubSeq(frames, 2, Len(frames) - (IF genPc = "closed" THEN 1 ELSE 0))

C19_FinalContentFrame ==
    (connected /\ outcome = "final" /\ genPc \in {"final", "closed"}) =>
        \E i \in DOMAIN frames :
            /\ frames[i].type = "content"
            /\ frames[i].content = finalText
            /\ \A j \in DOMAIN frames :
                  /\ frames[j].type = "content_delta" => j < i
                  /\ frames[j].type = "done" => i < j

\* C20: every create_conversation call resolves its identifier as
\* follows.  Given none, one row is inserted under a newly generated
\* identifier, which is returned; given one no row has, one row is
\* inserted with exactly that identifier, which is returned; given one a
\* row has, nothing is inserted and it is returned unchanged.  The table
\* never holds two rows with the same identifier, and a call that repeats
\* the identifier of an earlier call inserts nothing and returns what
\* that call returned.
C20_ConversationResolution ==
    /\ \A k \in DOMAIN convLog :
          LET c == convLog[k]
              inserted == /\ c.rowsAfter = c.rowsBefore + 1
                          /\ conversations[c.rowsAfter].id = c.returned
          IN /\ c.given = NoConv =>
                   (inserted /\ c.returned \notin c.idsBefore
                             /\ c.returned # NoConv)
             /\ (c.given # NoConv /\ c.given \notin c.idsBefore) =>
                   (inserted /\ c.returned = c.given)
             /\ c.given \in c.idsBefore =>
                   (c.rowsAfter = c.rowsBefore /\ c.returned = c.given)
             /\ c.returned \in ConvIds(conversations)
    /\ \A i, j \in DOMAIN conversations :
          i # j => conversations[i].id # conversations[j].id
    /\ \A j, k \in DOMAIN convLog :
          (j < k /\ convLog[k].given # NoConv
                 /\ convLog[k].given = convLog[j].given) =>
             /\ convLog[k].rowsAfter = convLog[k].rowsBefore
             /\ convLog[k].returned = convLog[j].returned

\* C20 witness: an identifier the store lacked was given twice, inserted
\* by the first call, and a call without an identifier was made as well.
C20_UnknownIdGivenTwice ==
    /\ \E j, k \in DOMAIN convLog :
          /\ j < k
          /\ convLog[j].given = UnknownConv
          /\ convLog[k].given = UnknownConv
          /\ UnknownConv \notin convLog[j].idsBefore
    /\ \E k \in DOMAIN convLog : convLog[k].given = NoConv
    /\ \E k \in DOMAIN convLog : convLog[k].given = KnownConv

\* The request carries a non-empty conversation_id that is no UUID.
MalformedRequest == request.conversation_id = MalformedConv

HistoryScope ==
    {i \in 1 .. history.msgCount :
        messages[i].conversation_id = history.conversation_id}

\* The position in the messages table of the message with that id.
MessagePosition(id) == CHOOSE i \in DOMAIN messages : messages[i].id = id

\* C22: a history read with limit N returns at most N messages, and as
\* many as the conversation had when it had fewer; they are its most
\* recent ones, oldest first (the row at place j has exactly the rows
\* after it as later messages of the conversation), each with its role
\* and content and with exactly the tool calls attached to it.
C22_HistoryIsTrailingWindow ==
    LET rows == history.rows
        size == Cardinality(HistoryScope)
    IN /\ Len(rows) <= history.limit
       /\ Len(rows) = (IF history.limit < size THEN history.limit ELSE size)
       /\ \A j \in DOMAIN rows :
             /\ \E i \in HistoryScope : messages[i].id = rows[j].message_id
             /\ LET p == MessagePosition(rows[j].message_id) IN
                /\ Cardinality({i \in HistoryScope : i > p}) = Len(rows) - j
                /\ rows[j].role = messages[p].role
                /\ rows[j].content = messages[p].content
                /\ {rows[j].tool_calls[x] : x \in DOMAIN rows[j].tool_calls}
                     = {tool_calls[x] : x \in
                          {y \in 1 .. history.tcCount :
                              tool_calls[y].message_id = rows[j].message_id}}
                /\ Len(rows[j].tool_calls)
                     = Cardinality({y \in 1 .. history.tcCount :
                          tool_calls[y].message_id = rows[j].message_id})

\* C22 witness: a conversation of five messages read with limit 3 gave
\* three rows, one of them with a tool call.
C22_ThreeOfFive ==
    /\ history.limit = HistoryLimit
    /\ Cardinality(HistoryScope) = 5
    /\ Len(history.rows) = 3
    /\ \E j \in DOMAIN history.rows : history.rows[j].tool_calls # <<>>

\* The tool_result frames the client received, by position in frames.
ToolResultFrames == {i \in DOMAIN frames : frames[i].type = "tool_result"}

\* A turn that completed normally for a client that stayed to its end: no
\* store call raised, and every tool completion the engine reported
\* belonged to an invocation it had started.
NormalTurnDelivered ==
    /\ connected
    /\ outcome = "final"
    /\ genPc = "closed"
    /\ failed = <<>>
    /\ Cardinality(ToolResultFrames) = Cardinality(Completed)

\* C23: after such a turn the ToolCall rows and the tool_result frames are
\* as many, and for every tool name and result text there are as many
\* rows as frames.
C23_RowsMatchResultFrames ==
    NormalTurnDelivered =>
        /\ Len(tool_calls) = Cardinality(ToolResultFrames)
        /\ \A i \in ToolResultFrames :
              Cardinality({r \in DOMAIN tool_calls :
                              /\ tool_calls[r].tool_name = frames[i].tool
                              /\ tool_calls[r].result = frames[i].result})
              = Cardinality({j \in ToolResultFrames :
                              /\ frames[j].tool = frames[i].tool
                              /\ frames[j].result = frames[i].result})

\* The frames turn t wrote between its conversation_id frame and the done
\* frame that follows its Delivery Loop.
TurnDelivered(t) ==
    SubSeq(turns[t].frames, 2,
           Len(turns[t].frames) - (IF turns[t].genPc = "closed" THEN 1 ELSE 0))

CountType(events, type) ==
    Cardinality({i \in DOMAIN events : events[i].type = type})

\* C24: two turns running together in different conversations do not
\* touch each other.  For each turn: its frames and its queue hold
\* exactly the events its own Producer put, in order, and every content
\* delta in them is text of its own engine; its accumulated response,
\* tool-call list and deduplication set follow from its own events; its
\* assistant Message is in its own conversation with its own text; and
\* the ToolCall rows under that message are those of its own
\* deduplication set.  Every message in the store is in the
\* conversation of one of the turns, and the conversations differ.
C24_TurnsIndependent ==
    /\ \A t \in TurnIds :
          LET r == turns[t] IN
          r.genPc # "init" =>
             /\ TurnDelivered(t) \o r.event_queue = r.putLog
             /\ \A i \in DOMAIN r.frames :
                   r.frames[i].type = "content_delta"
                      => r.frames[i].content = TurnDelta(t)
             /\ Len(r.tool_calls_data) = CountType(r.putLog, "tool_call")
             /\ r.outcome # "final" =>
                   StrLen(r.full_response)
                      = CountType(r.putLog, "content_delta")
                           * StrLen(TurnDelta(t))
             /\ r.saved_tool_call_ids
                   \subseteq {ToolCallId(r.tool_calls_data[i]) :
                                 i \in DOMAIN r.tool_calls_data}
             /\ \A i \in DOMAIN messages :
                   messages[i].id = r.assistant_message_id =>
                      /\ messages[i].conversation_id = r.conversation_id
                      /\ messages[i].content \in {TurnDelta(t), TurnFinal(t)}
             /\ Cardinality({i \in DOMAIN tool_calls :
                    tool_calls[i].message_id = r.assistant_message_id})
                  = Cardinality(r.saved_tool_call_ids)
             /\ Cardinality({i \in DOMAIN messages :
                    messages[i].conversation_id = r.conversation_id}) <= 2
    /\ \A i \in DOMAIN messages :
          \E t \in TurnIds :
              messages[i].conversation_id = turns[t].conversation_id
    /\ \A s, t \in TurnIds :
          (s # t /\ turns[s].genPc # "init" /\ turns[t].genPc # "init")
             => turns[s].conversation_id # turns[t].conversation_id

\* C24 witness: both turns ran a tool call and completed, their writes
\* interleaved in the store, and each client has its whole stream.
C24_BothTurnsCompletedInterleaved ==
    /\ \A t \in TurnIds :
          /\ turns[t].genPc = "closed"
          /\ turns[t].outcome = "final"
          /\ turns[t].saved_tool_call_ids # {}
          /\ TurnDelivered(t) = turns[t].putLog
    /\ Len(messages) = 4
    /\ messages[1].conversation_id # messages[2].conversation_id
    /\ messages[3].conversation_id # messages[4].conversation_id
    /\ Len(tool_calls) = 2

\* ---------------------------------------------------------------- C25
\* The tracked invocation at position i is of the tool `name`, has no
\* result yet, and no earlier invocation of that tool is without one.
EarliestOpen(tcs, i, name) ==
    /\ tcs[i].tool_name = name
    /\ tcs[i].result = None
    /\ \A j \in 1 .. (i - 1) :
          ~(tcs[j].tool_name = name /\ tcs[j].result = None)

\* The step handled an on_tool_end: it is the only handler that puts a
\* tool_result event, and it puts it last.
ToolEndHandled ==
    /\ Len(putLog') = Len(putLog) + 1
    /\ putLog'[Len(putLog')].type = "tool_result"

\* C25: an on_tool_end of a tool sets the result of exactly one tracked
\* invocation, the earliest started one of that tool whose result is
\* still unset, to the (truncated) output the tool_result event carries,
\* and leaves every other tracked invocation as it was.  (A completion
\* that finds no unresolved invocation of its tool changes none.)
C25_FirstUnresolvedPaired ==
    [][ToolEndHandled =>
         LET ev == putLog'[Len(putLog')]
             changed == {i \in DOMAIN tool_calls_data :
                            tool_calls_data'[i] # tool_calls_data[i]}
             first == {i \in DOMAIN tool_calls_data :
                          EarliestOpen(tool_calls_data, i, ev.tool)}
         IN /\ DOMAIN tool_calls_data' = DOMAIN tool_calls_data
            /\ changed = first
            /\ Cardinality(changed) <= 1
            /\ \A i \in changed :
                  tool_calls_data'[i] =
                      [tool_calls_data[i] EXCEPT !.result = ev.result]]_vars

\* Two invocations of one tool were started and one completion has come:
\* the earlier one has the result, the later one is still unresolved.
C25_EarlierOfTwoResolved ==
    /\ Len(tool_calls_data) = 2
    /\ tool_calls_data[1].tool_name = tool_calls_data[2].tool_name
    /\ tool_calls_data[1].result # None
    /\ tool_calls_data[2].result = None
    /\ putLog # <<>>
    /\ putLog[Len(putLog)].type = "tool_result"

\* ---------------------------------------------------------------- C26
\* What the Producer task owns or writes: its locals, the queue, the store.
ProducerSide ==
    <<prodVars, storeVars, event_queue, putLog, nEvents, failed, finalText,
      outcome, lastCall, incrFail>>

\* C26: every break out of the Delivery Loop (a terminal event forwarded,
\* the Producer finished with an empty queue, a failed frame write) leads
\* to the write after the loop and nowhere else, short of the consumer
\* closing the generator on a client that is gone.  There one done frame,
\* and no other, is written: a connected client receives it, a failed
\* write is swallowed, and either way the generator ends with the
\* Producer, its queue and the store untouched.  Nothing is written after
\* that.
C26_OneFinalDoneWrite ==
    [][/\ (genPc = "loop" /\ genPc' # "loop")
            => (genPc' = "final" \/ (~connected /\ genPc' = "closed"))
       /\ (genPc = "final" /\ genPc' = "final") => frames' = frames
       /\ (genPc = "final" /\ genPc' # "final")
            => /\ genPc' = "closed"
               /\ frames' = IF connected
                            THEN Append(frames, [type |-> "done"])
                            ELSE frames
               /\ UNCHANGED ProducerSide
       /\ genPc = "closed" => (genPc' = "closed" /\ frames' = frames)]_vars

\* C26 witness: the engine ran dry without a terminal event, the loop left
\* on the timeout, and the connected client got its one done frame, last.
C26_DoneAfterSilentProducer ==
    /\ connected
    /\ genPc = "closed"
    /\ outcome = "exhausted"
    /\ Len(putLog) >= 1
    /\ frames[Len(frames)].type = "done"
    /\ CountType(frames, "done") = 1

\* ---------------------------------------------------------------- C27
\* The keys of the tracked invocations that have their result.
CompletedKeys(tcs) ==
    {ToolCallId(tcs[i]) : i \in {j \in DOMAIN tcs : tcs[j].result # None}}

\* The keys of the ToolCall rows stored under a message.
StoredKeys(rows, mid) ==
    {<<rows[i].tool_name, rows[i].input>> :
        i \in {j \in DOMAIN rows : rows[j].message_id = mid}}

\* C27: a key enters saved_tool_call_ids only with the row its write
\* stored, so a write that raised leaves the key out; and a pair left out
\* by a write that raised earlier in the turn is written when the
\* terminal event is handled, if no write raises there.
C27_FailedPairRetried ==
    [][/\ saved_tool_call_ids'
            \subseteq StoredKeys(tool_calls', assistant_message_id')
       /\ (/\ outcome = "none" /\ outcome' = "final"
           /\ failed = <<"save_tool_call">>
           /\ failed' = failed)
            => CompletedKeys(tool_calls_data') \subseteq saved_tool_call_ids']_vars

\* ---------------------------------------------------------------- C28
\* The step handled the first non-empty content fragment of the turn: no
\* assistant Message existed, and the step put a content_delta first.
FirstFragmentHandled ==
    /\ assistant_message_id = NoId
    /\ Len(putLog') > Len(putLog)
    /\ putLog'[Len(putLog) + 1].type = "content_delta"

\* How many writes of the given kind raised during the step.
RaisedInStep(kind) ==
    Cardinality({k \in DOMAIN failed' : k > Len(failed) /\ failed'[k] = kind})

\* C28: handling the first non-empty content fragment of a turn inserts
\* the assistant Message (one row, in the turn's conversation, holding the
\* fragment) and, in the same step, writes under that message the pair of
\* every tool call that had completed by then, each with its result, and
\* records its key: a pair is missing only if its own write raised.  If
\* the insert of the message itself raises, the turn ends with an error.
C28_FirstFragmentFlushesToolCalls ==
    [][FirstFragmentHandled =>
         LET delta == putLog'[Len(putLog) + 1].content
             done == {i \in DOMAIN tool_calls_data :
                         tool_calls_data[i].result # None}
             rowOf(i) == \E r \in DOMAIN tool_calls' :
                            /\ tool_calls'[r].message_id = assistant_message_id'
                            /\ tool_calls'[r].tool_name
                                  = tool_calls_data[i].tool_name
                            /\ tool_calls'[r].input = tool_calls_data[i].input
                            /\ tool_calls'[r].result = tool_calls_data[i].result
             missing == {ToolCallId(tool_calls_data[i]) :
                            i \in {j \in done : ~rowOf(j)}}
         IN IF RaisedInStep("save_message") > 0
            THEN /\ assistant_message_id' = NoId
                 /\ outcome' = "error"
            ELSE /\ assistant_message_id' # NoId
                 /\ tool_calls_data' = tool_calls_data
                 /\ messages' = Append(messages,
                        [id |-> assistant_message_id',
                         conversation_id |-> conversation_id,
                         role |-> "assistant", content |-> delta])
                 /\ Cardinality(missing) <= RaisedInStep("save_tool_call")
                 /\ saved_tool_call_ids'
                       = CompletedKeys(tool_calls_data) \ missing]_vars

\* C28 witness: a tool call completed before any text; the first fragment
\* has been handled and nothing since; its row is under the new message.
C28_ToolCallBeforeFirstToken ==
    /\ outcome = "none"
    /\ failed = <<>>
    /\ Len(putLog) = 3
    /\ putLog[2].type = "tool_result"
    /\ putLog[3].type = "content_delta"
    /\ assistant_message_id # NoId
    /\ Len(tool_calls) = 1
    /\ tool_calls[1].message_id = assistant_message_id

\* ---------------------------------------------------------------- C29
\* C29: once the final output has been handled the Producer task is over.
\* The done event is the last event it put; from then on no engine event
\* is consumed, nothing more is put, the task's locals stay as they are
\* and no row of the store is written: no later content delta reaches
\* the assistant Message.  The queue can only drain.
C29_ProducerStopsAfterFinalOutput ==
    [][/\ outcome' = "final"
            => /\ prodPc' = "done"
               /\ putLog' # <<>>
               /\ putLog'[Len(putLog')].type = "done"
       /\ outcome = "final"
            => /\ UNCHANGED <<prodVars, storeVars, putLog, nEvents, failed,
                              finalText, outcome, lastCall, incrFail>>
               /\ \/ event_queue' = event_queue
                  \/ /\ event_queue # <<>>
                     /\ event_queue' = Tail(event_queue)]_vars

\* C29 witness: the final output came as the first engine event, with
\* more events left in the budget; the stream has been delivered and
\* closed, and the assistant Message still holds the final text.
C29_FinalTextLeftAlone ==
    /\ outcome = "final"
    /\ nEvents = 1
    /\ genPc = "closed"
    /\ connected
    /\ \E i \in DOMAIN messages :
          /\ messages[i].id = assistant_message_id
          /\ messages[i].content = finalText

\* ---------------------------------------------------------------- C30
\* The step left the Delivery Loop without taking an event: the break of
\* the timeout branch.
TimeoutExit ==
    /\ genPc = "loop"
    /\ genPc' = "final"
    /\ event_queue' = event_queue

UserRows == {i \in DOMAIN messages : messages[i].role = "user"}

\* The identifier the store gave the user message: the next one after the
\* conversation's own when the turn created the conversation.
UserMessageId == IF conversation_id.by = "uuid4" THEN conversation_id.n + 1 ELSE 1

\* C31: a turn stores one user Message and no second one.  It is the
\* first row the turn writes, so it precedes every assistant Message; it
\* is in the store from the moment the Producer is started; and in every
\* later state it is the same row: the request's text, in the turn's
\* conversation, under the identifier it was given.
C31_OneUserMessageFirst ==
    /\ Cardinality(UserRows) <= 1
    /\ messages # <<>> => UserRows = {1}
    /\ prodPc # "idle" =>
          /\ UserRows = {1}
          /\ messages[1] = [id |-> UserMessageId,
                            conversation_id |-> conversation_id,
                            role |-> "user", content |-> request.message]

\* C31 witness: the turn ran to its final output and was delivered; the
\* store holds the user message and, after it, the assistant message.
C31_UserThenAssistant ==
    /\ outcome = "final"
    /\ genPc = "closed"
    /\ Len(messages) = 2
    /\ messages[1].role = "user"
    /\ messages[1].content = request.message
    /\ messages[2].role = "assistant"

\* ---------------------------------------------------------------- C32
\* The tool_result events the Producer has put, by position in putLog.
ToolResultsPut == {i \in DOMAIN putLog : putLog[i].type = "tool_result"}

\* C32: the result of every ToolCall row and of every tool_result event
\* is the first ResultLimit characters of the tool's output, so never
\* longer than that; and the result a row holds is the one a tool_result
\* event of that tool carried to the client, character for character.
C32_ResultTruncatedAndSame ==
    /\ \A i \in ToolResultsPut :
          /\ putLog[i].result = Prefix(ToolOutput(putLog[i].tool), ResultLimit)
          /\ StrLen(putLog[i].result) <= ResultLimit
    /\ \A r \in DOMAIN tool_calls :
          /\ tool_calls[r].result
                = Prefix(ToolOutput(tool_calls[r].tool_name), ResultLimit)
          /\ StrLen(tool_calls[r].result) <= ResultLimit
          /\ \E i \in ToolResultsPut :
                /\ putLog[i].tool = tool_calls[r].tool_name
                /\ putLog[i].result = tool_calls[r].result

\* C32 witness: a tool whose output is longer than the limit completed;
\* its row and its event both hold exactly ResultLimit characters.
C32_LongOutputCut ==
    \E r \in DOMAIN tool_calls, i \in ToolResultsPut :
        /\ StrLen(ToolOutput(tool_calls[r].tool_name)) > ResultLimit
        /\ putLog[i].tool = tool_calls[r].tool_name
        /\ StrLen(tool_calls[r].result) = ResultLimit
        /\ putLog[i].result = tool_calls[r].result

\* ---------------------------------------------------------------- C33
\* A step of the generator once the turn has started, or of its client:
\* the Producer handled no engine event in it.
DeliveryStep == genPc # "init" /\ nEvents' = nEvents

\* C33: no pass of the Delivery Loop (an event taken and its frame
\* written or its write failed, a timeout, the final done write), and no
\* disconnect or close of the stream, changes the store, the Producer's
\* response, tool-call list, deduplication set, message identifier or
\* checkpoint length, the Producer's position, or what it has put: the
\* loop only takes from the head of the queue and reads whether the task
\* is done.
C33_DeliveryLeavesProducerAlone ==
    [][DeliveryStep =>
         /\ UNCHANGED <<storeVars, prodVars, putLog, failed, finalText,
                        outcome, lastCall, incrFail>>
         /\ \/ event_queue' = event_queue
            \/ /\ event_queue # <<>>
               /\ event_queue' = Tail(event_queue)]_vars

\* C33 witness: the client left mid-turn, the loop broke on the failed
\* write and the generator is closed; the Producer went on to the final
\* output and stored its message and a tool call.
C33_ProducerFinishedAfterLoopBroke ==
    /\ ~connected
    /\ genPc = "closed"
    /\ Len(frames) >= 2
    /\ outcome = "final"
    /\ tool_calls # <<>>
    /\ Len(messages) = 2
    /\ event_queue # <<>>

\* ---------------------------------------------------------------- C34
\* The done and error events the Producer has put, by position in putLog.
TerminalsPut == {i \in DOMAIN putLog : IsTerminal(putLog[i])}

\* C34: of all the events the Producer puts in a turn at most one is a
\* done or an error (so never one of each), and when there is one it is
\* the last event put and the task is over.
C34_OneTerminalEventLast ==
    /\ Cardinality(TerminalsPut) <= 1
    /\ TerminalsPut # {} => /\ TerminalsPut = {Len(putLog)}
                            /\ prodPc = "done"

\* C34 witness: the turn failed after a content delta with engine events
\* still to come; the error event is the last event put, and the stream
\* has been delivered and closed.
C34_ErrorPutLastAfterDelta ==
    /\ Len(putLog) >= 2
    /\ putLog[Len(putLog)].type = "error"
    /\ putLog[Len(putLog) - 1].type = "content_delta"
    /\ nEvents < MaxEvents
    /\ genPc = "closed"

\* ---------------------------------------------------------------- C35
\* C35: every ToolCall row is under the turn's assistant Message, a row
\* of the store that was written before it (identifiers are given in the
\* order of the writes); while the turn has no assistant Message the
\* store has no ToolCall row, whatever has completed by then.
C35_ToolCallsUnderAssistantMessage ==
    /\ \A r \in DOMAIN tool_calls :
          /\ assistant_message_id # NoId
          /\ tool_calls[r].message_id = assistant_message_id
          /\ \E i \in AssistantRows :
                /\ messages[i].id = assistant_message_id
                /\ messages[i].conversation_id = conversation_id
                /\ messages[i].id < tool_calls[r].id
    /\ assistant_message_id = NoId => tool_calls = <<>>

\* C35 witness: a turn without streamed text; its tool call completed
\* with no assistant Message to hang on, and the final output created
\* the message and wrote the row under it.
C35_DeferredToFinalOutput ==
    /\ outcome = "final"
    /\ \A i \in DOMAIN putLog : putLog[i].type # "content_delta"
    /\ Completed # {}
    /\ Len(tool_calls) = Cardinality(Completed)
    /\ \A r \in DOMAIN tool_calls :
          tool_calls[r].message_id = assistant_message_id

\* ---------------------------------------------------------------- C36
\* C36: every ToolCall row has a result, and it is the row of a tracked
\* invocation whose completion was observed: same tool, same input, same
\* result.  There are no more rows than completed invocations, and a
\* (tool name, input) pair none of whose invocations has completed has
\* no row.
C36_RowsOnlyForCompletedCalls ==
    /\ \A r \in DOMAIN tool_calls :
          /\ tool_calls[r].result # None
          /\ \E i \in Completed :
                /\ tool_calls_data[i].tool_name = tool_calls[r].tool_name
                /\ tool_calls_data[i].input = tool_calls[r].input
                /\ tool_calls_data[i].result = tool_calls[r].result
    /\ Len(tool_calls) <= Cardinality(Completed)
    /\ \A i \in DOMAIN tool_calls_data :
          (\A j \in Completed :
              ToolCallId(tool_calls_data[j]) # ToolCallId(tool_calls_data[i]))
             => ~HasRow(tool_calls_data[i].tool_name, tool_calls_data[i].input)

\* C36 witness: two invocations started and one completed; the turn ran
\* to its final output, whose flush passed over the unfinished one: one
\* row.
C36_UnfinishedCallLeftOut ==
    /\ outcome = "final"
    /\ Len(tool_calls_data) = 2
    /\ Cardinality(Completed) = 1
    /\ Len(tool_calls) = 1
    /\ lastCall.kind = "final"
    /\ ~lastCall.raised

\* ---------------------------------------------------------------- C37
\* C37: once the turn has read its history, the read was made with limit
\* HistoryLimit on the turn's conversation and with the turn's user
\* message already stored (it is the newest row of the table the read
\* saw); the formatted history handed to the engine has at most
\* HistoryLimit elements and its last one is a HumanMessage with the
\* request's text, which is also the engine's input.
C37_HistoryEndsWithCurrentMessage ==
    history # NoHistory =>
        /\ history.limit = HistoryLimit
        /\ history.conversation_id = conversation_id
        /\ history.msgCount >= 1
        /\ messages[history.msgCount]
              = [id |-> messages[history.msgCount].id,
                 conversation_id |-> conversation_id,
                 role |-> "user", content |-> request.message]
        /\ history.rows # <<>>
        /\ history.rows[Len(history.rows)].message_id
              = messages[history.msgCount].id
        /\ LET chat_history == agent_input.chat_history IN
           /\ Len(chat_history) = Len(history.rows)
           /\ Len(chat_history) <= HistoryLimit
           /\ chat_history[Len(chat_history)]
                 = [type |-> "HumanMessage", content |-> request.message]
           /\ agent_input.input = request.message

\* C37 witness: the conversation had three messages before the turn; the
\* engine is given the last two of them and then the current message.
C37_TwoOldMessagesThenCurrent ==
    /\ prodPc = "run"
    /\ Cardinality(HistoryScope) = 4
    /\ Len(agent_input.chat_history) = HistoryLimit
    /\ agent_input.chat_history[1].type = "AIMessage"
    /\ agent_input.chat_history[2].type = "HumanMessage"
    /\ agent_input.chat_history[3].content = request.message

\* ---------------------------------------------------------------- C38
\* The engine's stream ran dry under the Producer: no final output with a
\* non-empty text came, and nothing raised.
StreamRanDry == outcome = "exhausted"

\* What the store holds of the turn's assistant Message.
PersistedAssistant ==
    {messages[i].content :
        i \in {j \in AssistantRows : messages[j].id = assistant_message_id}}

\* C38: when the engine's stream ends without a final output, the
\* Producer is finished and has put neither done nor error; its last
\* store write of a message is still the last incremental one (the user
\* message if no text came), so the assistant Message, if there is one,
\* holds what that write stored.  The Delivery Loop is left all the same
\* and the stream closed, and a client that stayed has received one done
\* frame, the last frame, and no error frame.
C38_SilentEndStillClosesStream ==
    /\ [](StreamRanDry =>
            /\ prodPc = "done"
            /\ TerminalsPut = {}
            /\ lastCall.kind \in {"user", "first"}
            /\ ~lastCall.raised
            /\ IF assistant_message_id = NoId
               THEN AssistantRows = {}
               ELSE /\ lastCall.kind = "first"
                    /\ PersistedAssistant = {lastCall.content}
            /\ (genPc = "closed" /\ connected) =>
                  /\ CountType(frames, "done") = 1
                  /\ frames[Len(frames)].type = "done"
                  /\ CountType(frames, "error") = 0)
    /\ StreamRanDry ~> (genPc = "closed")

\* C38 witness: two fragments streamed and the engine stopped; the client
\* has both deltas and the one done frame, and the store still holds the
\* first fragment only.
C38_ClosedOnFirstFragment ==
    /\ StreamRanDry
    /\ connected
    /\ genPc = "closed"
    /\ CountType(frames, "content_delta") = 2
    /\ CountType(frames, "done") = 1
    /\ \E c \in PersistedAssistant : StrLen(c) < StrLen(full_response)

\* ---------------------------------------------------------------- C39
\* No tracked invocation of the tool is waiting for its result.
NoneUnresolved(tcs, name) ==
    \A i \in DOMAIN tcs : ~(tcs[i].tool_name = name /\ tcs[i].result = None)

\* C39: an on_tool_end of a tool none of whose tracked invocations is
\* unresolved leaves the tracked invocations as they are, and still puts
\* the tool_result event with the (truncated) output.  It adds no row of
\* its own: a ToolCall row written in that step is the row of an
\* invocation that had completed before and whose pair was not yet saved.
C39_UnmatchedCompletionOnlyRelayed ==
    [][(ToolEndHandled
          /\ NoneUnresolved(tool_calls_data, putLog'[Len(putLog')].tool)) =>
         LET ev == putLog'[Len(putLog')] IN
         /\ tool_calls_data' = tool_calls_data
         /\ ev.result = Prefix(ToolOutput(ev.tool), ResultLimit)
         /\ event_queue' = Append(event_queue, ev)
         /\ Len(tool_calls') >= Len(tool_calls)
         /\ SubSeq(tool_calls', 1, Len(tool_calls)) = tool_calls
         /\ \A r \in (Len(tool_calls) + 1) .. Len(tool_calls') :
               \E i \in DOMAIN tool_calls_data :
                  /\ tool_calls_data[i].result # None
                  /\ ToolCallId(tool_calls_data[i]) \notin saved_tool_call_ids
                  /\ tool_calls_data[i].tool_name = tool_calls'[r].tool_name
                  /\ tool_calls_data[i].input = tool_calls'[r].input
                  /\ tool_calls_data[i].result = tool_calls'[r].result]_vars

\* C39 witness: with the assistant Message in place, a completion came
\* for a tool no invocation of which ever started; its tool_result event
\* was put, nothing is tracked and no row was written.
C39_ResultOfUnstartedToolRelayed ==
    /\ assistant_message_id # NoId
    /\ tool_calls_data = <<>>
    /\ tool_calls = <<>>
    /\ putLog # <<>>
    /\ putLog[Len(putLog)].type = "tool_result"
====
